---- MODULE Spec2Model ----
(***************************************************************************)
(* Model of aliasforge.py: the date parser, the Chinese and the Western    *)
(* combination generators and the filter/dedupe stage.                     *)
(*                                                                         *)
(* A Python str is modelled as a sequence of one-character strings, so     *)
(* that lower(), strip(), split(), zfill() and slicing are computed        *)
(* character by character.                                                 *)
(***************************************************************************)
EXTENDS Integers, Sequences, FiniteSets, TLC

MIN_LEN == 6
MAX_LEN_CN == 16
MAX_LEN_EN == 18

\* ------------------------------------------------------------------------
\* Python string primitives
\* ------------------------------------------------------------------------
E == <<>>
Dot == <<".">>

UpperChars == <<"A","B","C","D","E","F","G","H","I","J","K","L","M",
                "N","O","P","Q","R","S","T","U","V","W","X","Y","Z">>
LowerChars == <<"a","b","c","d","e","f","g","h","i","j","k","l","m",
                "n","o","p","q","r","s","t","u","v","w","x","y","z">>
Digits == {"0","1","2","3","4","5","6","7","8","9"}

\* str.lower() on one character
lowc(c) ==
    IF \E i \in 1..26 : UpperChars[i] = c
    THEN LowerChars[CHOOSE i \in 1..26 : UpperChars[i] = c]
    ELSE c

\* low(s): s.lower()
low(s) == [i \in 1..Len(s) |-> lowc(s[i])]

\* ini(s): s[0].lower() if s else ""
ini(s) == IF s # E THEN <<lowc(s[1])>> ELSE E

IsSpace(c) == c = " "

RECURSIVE lstrip(_)
lstrip(s) == IF s # E /\ IsSpace(s[1]) THEN lstrip(Tail(s)) ELSE s

RECURSIVE rstrip(_)
rstrip(s) ==
    IF s # E /\ IsSpace(s[Len(s)]) THEN rstrip(SubSeq(s, 1, Len(s) - 1)) ELSE s

\* s.strip()
strip(s) == rstrip(lstrip(s))

\* index of the first character of s satisfying the test, Len(s)+1 if none
FirstSpace(s) ==
    IF \E i \in 1..Len(s) : IsSpace(s[i])
    THEN CHOOSE i \in 1..Len(s) : IsSpace(s[i]) /\ \A j \in 1..(i-1) : ~IsSpace(s[j])
    ELSE Len(s) + 1

FirstOf(s, c) ==
    IF \E i \in 1..Len(s) : s[i] = c
    THEN CHOOSE i \in 1..Len(s) : s[i] = c /\ \A j \in 1..(i-1) : s[j] # c
    ELSE Len(s) + 1

\* s.split(): the whitespace-separated words of s
RECURSIVE split_ws(_)
split_ws(s) ==
    LET t == lstrip(s) IN
    IF t = E THEN <<>>
    ELSE LET n == FirstSpace(t) IN
         <<SubSeq(t, 1, n - 1)>> \o split_ws(SubSeq(t, n, Len(t)))

\* s.split(c): the parts of s between occurrences of c (empty parts kept)
RECURSIVE split_on(_, _)
split_on(s, c) ==
    LET n == FirstOf(s, c) IN
    IF n > Len(s) THEN <<s>>
    ELSE <<SubSeq(s, 1, n - 1)>> \o split_on(SubSeq(s, n + 1, Len(s)), c)

\* s.replace(c, d) for single characters
replace(s, c, d) == [i \in 1..Len(s) |-> IF s[i] = c THEN d ELSE s[i]]

Zeros(n) == [i \in 1..n |-> "0"]

\* s.zfill(w): left-pad with zeros, after a leading sign if there is one
zfill(s, w) ==
    IF Len(s) >= w THEN s
    ELSE IF s # E /\ s[1] \in {"+", "-"}
         THEN <<s[1]>> \o Zeros(w - Len(s)) \o Tail(s)
         ELSE Zeros(w - Len(s)) \o s

\* s[-n:]
LastN(s, n) == IF Len(s) <= n THEN s ELSE SubSeq(s, Len(s) - n + 1, Len(s))

InSeq(x, q) == \E i \in 1..Len(q) : q[i] = x

SeqToSet(q) == {q[i] : i \in 1..Len(q)}

RECURSIVE Flatten(_)
Flatten(ss) == IF ss = <<>> THEN <<>> ELSE Head(ss) \o Flatten(Tail(ss))

\* [x for x in lst if x]
NonEmpty(lst) == SelectSeq(lst, LAMBDA x : x # E)

\* ------------------------------------------------------------------------
\* trim: dedupe, enforce the length window, preserve order
\* ------------------------------------------------------------------------
\* the test of line 38 without the upper end of the window
trim_keep_nomax(x, maxlen, result) ==
    x # E /\ MIN_LEN <= Len(x) /\ ~InSeq(x, result)

\* the test of line 38 without the seen set
trim_keep_noseen(x, maxlen, result) ==
    x # E /\ MIN_LEN <= Len(x) /\ Len(x) <= maxlen

\* the test of line 38; seen holds exactly the elements of result
trim_keep(x, maxlen, result) ==
    x # E /\ MIN_LEN <= Len(x) /\ Len(x) <= maxlen /\ ~InSeq(x, result)

\* the for loop of lines 36-40 run over lst[lo..hi], entered with result;
\* the range is walked left to right, split in halves to keep the evaluation
\* shallow
RECURSIVE trim_loop(_, _, _, _, _)
trim_loop(lst, lo, hi, maxlen, result) ==
    IF lo > hi THEN result
    ELSE IF lo = hi
    THEN LET x == strip(lst[lo]) IN
         IF trim_keep(x, maxlen, result) THEN Append(result, x) ELSE result
    ELSE LET mid  == (lo + hi) \div 2
             left == trim_loop(lst, lo, mid, maxlen, result)
         IN  \* the test makes the evaluator finish lst[lo..mid] before going on
             IF Len(left) >= 0 THEN trim_loop(lst, mid + 1, hi, maxlen, left) ELSE left

\* trim walking the candidates from the last to the first
trim_backwards(lst, maxlen) ==
    trim_loop([i \in 1..Len(lst) |-> lst[Len(lst) + 1 - i]], 1, Len(lst), maxlen, <<>>)

trim(lst, maxlen) == trim_loop(lst, 1, Len(lst), maxlen, <<>>)

\* ------------------------------------------------------------------------
\* parse_dates(year, dob) -> (yr4, yr2, dy2, md)
\* ------------------------------------------------------------------------
dob_parts(dob) == split_on(replace(strip(dob), "-", "/"), "/")

\* parse_dates taking a dob of two or more parts
parse_dates_loose(year, dob) ==
    LET y4  == IF year # E THEN LastN(strip(year), 4) ELSE E
        pt  == dob_parts(dob)
        ok  == dob # E /\ Len(pt) >= 2
        yr4 == IF ok /\ y4 = E THEN pt[1] ELSE y4
        mo  == zfill(pt[2], 2)
        dy  == zfill(IF Len(pt) >= 3 THEN pt[3] ELSE E, 2)
    IN  [yr4 |-> yr4,
         yr2 |-> LastN(yr4, 2),
         dy2 |-> IF ok THEN LastN(dy, 2) ELSE E,
         md  |-> IF ok THEN mo \o dy ELSE E]

\* parse_dates taking the month where the day belongs
parse_dates_month(year, dob) ==
    LET y4  == IF year # E THEN LastN(strip(year), 4) ELSE E
        ok  == dob # E /\ Len(dob_parts(dob)) = 3
        pt  == dob_parts(dob)
        yr4 == IF ok /\ y4 = E THEN pt[1] ELSE y4
        mo  == zfill(pt[2], 2)
        dy  == zfill(pt[3], 2)
    IN  [yr4 |-> yr4,
         yr2 |-> LastN(yr4, 2),
         dy2 |-> IF ok THEN LastN(mo, 2) ELSE E,
         md  |-> IF ok THEN mo \o dy ELSE E]

parse_dates(year, dob) ==
    LET y4  == IF year # E THEN LastN(strip(year), 4) ELSE E
        ok  == dob # E /\ Len(dob_parts(dob)) = 3
        pt  == dob_parts(dob)
        yr4 == IF ok /\ y4 = E THEN pt[1] ELSE y4
        mo  == zfill(pt[2], 2)
        dy  == zfill(pt[3], 2)
    IN  [yr4 |-> yr4,
         yr2 |-> LastN(yr4, 2),
         dy2 |-> IF ok THEN LastN(dy, 2) ELSE E,
         md  |-> IF ok THEN mo \o dy ELSE E]

\* dates = [x for x in [yr4, yr2, md, dy2] if x]
date_list(dt) == NonEmpty(<<dt.yr4, dt.yr2, dt.md, dt.dy2>>)

\* ------------------------------------------------------------------------
\* generate_chinese
\* ------------------------------------------------------------------------
\* token derivation (lines 123-144)
chinese_tokens(last, first, alias, alias2, year, dob) ==
    LET s      == low(strip(last))
        a      == IF alias # E THEN low(strip(alias)) ELSE E
        a2     == IF alias2 # E THEN low(strip(alias2)) ELSE E
        gparts == split_ws(low(strip(first)))
        g1     == IF Len(gparts) >= 1 THEN gparts[1] ELSE E
        g2     == IF Len(gparts) >= 2 THEN gparts[2] ELSE E
        si     == ini(s)
        g1i    == ini(g1)
        g2i    == IF g2 # E THEN ini(g2) ELSE E
        gi     == g1i \o g2i
        ai     == IF a # E THEN ini(a) ELSE E
        dt     == parse_dates(year, dob)
    IN  [s |-> s, a |-> a, a2 |-> a2, g1 |-> g1, g2 |-> g2, g |-> g1 \o g2,
         si |-> si, gi |-> gi, ai |-> ai,
         init_sg  |-> si \o gi,
         init_as  |-> IF ai # E THEN ai \o si ELSE E,
         init_asg |-> IF ai # E THEN ai \o si \o gi ELSE E,
         yr4 |-> dt.yr4, yr2 |-> dt.yr2, dy2 |-> dt.dy2, md |-> dt.md,
         dates |-> date_list(dt)]

\* TIER 1 - alias alone + quick initial combos
cn_tier1(t) ==
    IF t.a = E THEN <<>>
    ELSE [i \in 1..Len(t.dates) |-> t.a \o t.dates[i]]
         \o (IF t.dy2 # E /\ t.yr2 # E THEN <<t.a \o t.dy2 \o t.yr2>> ELSE <<>>)
         \o <<t.a \o t.si, t.a \o Dot \o t.si, t.si \o Dot \o t.a>>
         \o <<t.init_as, t.init_asg, t.ai \o Dot \o t.s>>

\* TIER 2 - alias + full given, alias + given + date
cn_tier2(t) ==
    IF t.a = E THEN <<>>
    ELSE <<t.a \o t.g, t.a \o Dot \o t.g, t.g \o Dot \o t.a>>
         \o Flatten([i \in 1..Len(t.dates) |->
                <<t.a \o t.g \o t.dates[i], t.a \o Dot \o t.g \o t.dates[i]>>])

\* TIER 3 - alias + init_sg
cn_tier3(t) ==
    IF t.a = E THEN <<>>
    ELSE <<t.a \o t.init_sg, t.a \o Dot \o t.init_sg, t.init_sg \o Dot \o t.a>>
         \o Flatten([i \in 1..Len(t.dates) |->
                <<t.a \o t.init_sg \o t.dates[i], t.a \o Dot \o t.init_sg \o t.dates[i]>>])

\* TIER 4 - alias + surname
cn_tier4(t) ==
    IF t.a = E THEN <<>>
    ELSE <<t.a \o t.s, t.a \o Dot \o t.s, t.s \o Dot \o t.a>>
         \o Flatten([i \in 1..Len(t.dates) |->
                <<t.a \o t.s \o t.dates[i], t.a \o Dot \o t.s \o t.dates[i]>>])

\* TIER 5 - g2 alone + date/initial
cn_tier5(t) ==
    IF t.g2 = E THEN <<>>
    ELSE [i \in 1..Len(t.dates) |-> t.g2 \o t.dates[i]]
         \o (IF t.dy2 # E /\ t.yr2 # E THEN <<t.g2 \o t.dy2 \o t.yr2>> ELSE <<>>)
         \o <<t.g2 \o t.si, t.g2 \o Dot \o t.si, t.si \o Dot \o t.g2>>
         \o Flatten([i \in 1..Len(t.dates) |->
                <<t.g2 \o t.si \o t.dates[i], t.g2 \o Dot \o t.si \o t.dates[i]>>])

\* TIER 6 - g2 + given / g2 + init_sg / g2 + surname
cn_tier6(t) ==
    IF t.g2 = E THEN <<>>
    ELSE <<t.g2 \o t.g, t.g2 \o Dot \o t.g>>
         \o Flatten([i \in 1..Len(t.dates) |->
                <<t.g2 \o t.g \o t.dates[i], t.g2 \o Dot \o t.g \o t.dates[i]>>])
         \o <<t.g2 \o t.init_sg, t.g2 \o Dot \o t.init_sg, t.init_sg \o Dot \o t.g2>>
         \o Flatten([i \in 1..Len(t.dates) |->
                <<t.g2 \o t.init_sg \o t.dates[i], t.g2 \o Dot \o t.init_sg \o t.dates[i]>>])
         \o <<t.g2 \o t.s, t.g2 \o Dot \o t.s, t.s \o Dot \o t.g2>>
         \o Flatten([i \in 1..Len(t.dates) |->
                <<t.g2 \o t.s \o t.dates[i], t.g2 \o Dot \o t.s \o t.dates[i]>>])

\* TIER 7 - given + surname-initial, given + si + date
cn_tier7(t) ==
    <<t.g \o t.si, t.g \o Dot \o t.si, t.si \o Dot \o t.g>>
    \o Flatten([i \in 1..Len(t.dates) |->
           <<t.g \o t.si \o t.dates[i], t.g \o Dot \o t.si \o t.dates[i]>>])

\* TIER 8 - given + date
cn_tier8(t) == [i \in 1..Len(t.dates) |-> t.g \o t.dates[i]]

\* tier 9 with the bare surname + date combos added
cn_tier9_bare(t) ==
    <<t.s \o t.gi, t.init_sg, t.s \o Dot \o t.gi>>
    \o Flatten([i \in 1..Len(t.dates) |->
           <<t.s \o t.gi \o t.dates[i], t.init_sg \o t.dates[i], t.s \o t.dates[i]>>])

\* TIER 9 - surname + given-initials only
cn_tier9(t) ==
    <<t.s \o t.gi, t.init_sg, t.s \o Dot \o t.gi>>
    \o Flatten([i \in 1..Len(t.dates) |->
           <<t.s \o t.gi \o t.dates[i], t.init_sg \o t.dates[i]>>])

\* TIER 10 - full surname combos
cn_tier10(t) == <<t.s \o t.g, t.g \o t.s>>

\* the alias2 block built without the tests for alias2 and alias
cn_alias2_ungated(t) ==
    <<t.a2 \o t.g, t.a2 \o t.s, t.g \o Dot \o t.a2, t.a \o Dot \o t.a2>>
    \o Flatten([i \in 1..Len(t.dates) |->
           <<t.a2 \o t.dates[i], t.a2 \o t.g \o t.dates[i]>>])

\* ALIAS2 block (lines 317-320)
cn_alias2(t) ==
    IF t.a2 = E THEN <<>>
    ELSE <<t.a2 \o t.g, t.a2 \o t.s, t.g \o Dot \o t.a2,
           IF t.a # E THEN t.a \o Dot \o t.a2 ELSE E>>
         \o Flatten([i \in 1..Len(t.dates) |->
                <<t.a2 \o t.dates[i], t.a2 \o t.g \o t.dates[i]>>])

\* the default candidates with the alias2 block ahead of tier 10
cn_default_alias2_early(t) ==
    cn_tier1(t) \o cn_tier2(t) \o cn_tier3(t) \o cn_tier4(t) \o cn_tier5(t)
    \o cn_tier6(t) \o cn_tier7(t) \o cn_tier8(t) \o cn_tier9(t) \o cn_alias2(t)
    \o cn_tier10(t)

\* the candidates both modes build (lines 146-320)
cn_default(t) ==
    cn_tier1(t) \o cn_tier2(t) \o cn_tier3(t) \o cn_tier4(t) \o cn_tier5(t)
    \o cn_tier6(t) \o cn_tier7(t) \o cn_tier8(t) \o cn_tier9(t) \o cn_tier10(t)
    \o cn_alias2(t)

\* FULL mode: alias block (lines 327-343)
cn_full_alias(t) ==
    IF t.a = E THEN <<>>
    ELSE Flatten([i \in 1..Len(t.dates) |->
             <<t.a \o t.g \o t.si \o t.dates[i],
               t.a \o Dot \o t.g \o Dot \o t.si \o t.dates[i],
               t.ai \o t.g \o t.dates[i],
               t.ai \o Dot \o t.g \o t.dates[i],
               t.ai \o t.init_sg \o t.dates[i]>>])
         \o <<t.ai \o t.g, t.ai \o Dot \o t.g, t.ai \o t.init_sg,
              t.a \o Dot \o t.s \o Dot \o t.g, t.a \o t.gi, t.a \o Dot \o t.gi>>

\* FULL mode: given x date dot variants, surname dot combos (lines 346-358)
cn_full_given(t) ==
    Flatten([i \in 1..Len(t.dates) |->
        <<t.g \o Dot \o t.dates[i], t.g \o Dot \o t.si \o Dot \o t.dates[i]>>])
    \o <<t.s \o Dot \o t.g, t.g \o Dot \o t.s,
         t.s \o Dot \o t.init_sg, t.init_sg \o Dot \o t.s>>

\* FULL mode: g2 extended (lines 361-385)
cn_full_g2(t) ==
    IF t.g2 = E THEN <<>>
    ELSE Flatten([i \in 1..Len(t.dates) |->
             <<t.g2 \o t.g \o t.si \o t.dates[i],
               IF t.a # E THEN t.ai \o t.g2 \o t.dates[i] ELSE E,
               t.g2 \o Dot \o t.g \o Dot \o t.si>>])
         \o <<t.g2 \o Dot \o t.g \o t.si, t.g2 \o t.gi, t.g2 \o Dot \o t.gi,
              IF t.a # E THEN t.ai \o t.g2 ELSE E,
              IF t.a # E THEN t.ai \o Dot \o t.g2 ELSE E>>
         \o (IF t.a = E THEN <<>>
             ELSE <<t.a \o t.g2, t.a \o Dot \o t.g2>>
                  \o Flatten([i \in 1..Len(t.dates) |->
                         <<t.a \o t.g2 \o t.dates[i],
                           t.a \o Dot \o t.g2 \o t.dates[i],
                           t.a \o t.g2 \o t.si \o t.dates[i]>>]))

\* FULL mode: alias2 extended (lines 388-391)
cn_full_alias2(t) ==
    IF t.a2 = E THEN <<>>
    ELSE Flatten([i \in 1..Len(t.dates) |->
             <<t.a2 \o t.dates[i], t.a2 \o Dot \o t.dates[i],
               t.a2 \o t.g \o t.dates[i]>>])
         \o <<t.a2 \o Dot \o t.g, t.a2 \o Dot \o t.s, t.a2 \o t.init_sg>>

\* full mode adding nothing
cn_full_none(t) == <<>>

cn_full(t) == cn_full_alias(t) \o cn_full_given(t) \o cn_full_g2(t) \o cn_full_alias2(t)

\* full mode replacing the default candidates instead of extending them
chinese_combos_replace(t, full) == IF full THEN cn_full(t) ELSE cn_default(t)

\* combos as handed to trim (line 393)
chinese_combos(t, full) == IF full THEN cn_default(t) \o cn_full(t) ELSE cn_default(t)

generate_chinese(last, first, alias, alias2, year, dob, full) ==
    trim(chinese_combos(chinese_tokens(last, first, alias, alias2, year, dob), full),
         MAX_LEN_CN)

\* ------------------------------------------------------------------------
\* generate_western
\* ------------------------------------------------------------------------
\* token derivation (lines 422-439)
western_tokens(first, last, middle, alias, alias2, year, dob) ==
    LET f  == low(strip(first))
        l  == low(strip(last))
        m  == IF middle # E THEN low(strip(middle)) ELSE E
        a  == IF alias # E THEN low(strip(alias)) ELSE E
        a2 == IF alias2 # E THEN low(strip(alias2)) ELSE E
        fi == ini(f)
        li == ini(l)
        mi == IF m # E THEN ini(m) ELSE E
        ai == IF a # E THEN ini(a) ELSE E
        dt == parse_dates(year, dob)
    IN  [f |-> f, l |-> l, m |-> m, a |-> a, a2 |-> a2,
         fi |-> fi, li |-> li, mi |-> mi, ai |-> ai,
         init_fl  |-> fi \o li,
         init_fml |-> IF mi # E THEN fi \o mi \o li ELSE fi \o li,
         ml |-> IF m # E THEN m \o l ELSE E,
         yr4 |-> dt.yr4, yr2 |-> dt.yr2, dy2 |-> dt.dy2, md |-> dt.md,
         dates |-> date_list(dt)]

\* PLAIN NAME (lines 444-446)
w_plain(t) ==
    <<t.f \o t.l, t.l \o t.f>>
    \o (IF t.m # E THEN <<t.f \o t.mi \o t.l, t.ml>> ELSE <<>>)

\* SHORT COMBOS (lines 449-463)
w_short(t) ==
    <<t.f \o t.li, t.fi \o t.l, t.f \o Dot \o t.li, t.fi \o Dot \o t.l,
      t.li \o Dot \o t.f>>
    \o (IF t.m # E
        THEN <<t.f \o t.mi, t.f \o Dot \o t.mi, t.fi \o Dot \o t.m,
               t.fi \o t.mi \o Dot \o t.l, t.f \o t.mi \o Dot \o t.li>>
        ELSE <<>>)

\* alias combos built without the test for an alias
w_alias_ungated(t) ==
    <<t.a \o t.f, t.f \o t.a,
      t.a \o t.l, t.l \o t.a,
      t.a \o t.fi, t.ai \o t.f,
      t.a \o t.li, t.ai \o t.l,
      t.a \o Dot \o t.fi, t.ai \o Dot \o t.f,
      t.a \o Dot \o t.li, t.ai \o Dot \o t.l,
      t.li \o Dot \o t.a, t.fi \o Dot \o t.a>>
    \o (IF t.m # E THEN <<t.a \o t.init_fml>> ELSE <<>>)

\* ALIAS COMBOS (lines 466-477)
w_alias(t) ==
    IF t.a = E THEN <<>>
    ELSE <<t.a \o t.f, t.f \o t.a,
           t.a \o t.l, t.l \o t.a,
           t.a \o t.fi, t.ai \o t.f,
           t.a \o t.li, t.ai \o t.l,
           t.a \o Dot \o t.fi, t.ai \o Dot \o t.f,
           t.a \o Dot \o t.li, t.ai \o Dot \o t.l,
           t.li \o Dot \o t.a, t.fi \o Dot \o t.a>>
         \o (IF t.m # E THEN <<t.a \o t.init_fml>> ELSE <<>>)

\* ALIAS + DATE (lines 480-484)
w_alias_date(t) ==
    IF t.a = E THEN <<>>
    ELSE [i \in 1..Len(t.dates) |-> t.a \o t.dates[i]]
         \o (IF t.dy2 # E /\ t.yr2 # E THEN <<t.a \o t.dy2 \o t.yr2>> ELSE <<>>)

\* initials block without its date loop
w_initials_nodates(t) ==
    <<t.init_fml, t.init_fml \o Dot \o t.l, t.f \o Dot \o t.init_fml>>
    \o (IF t.a # E THEN <<t.ai \o t.init_fml>> ELSE <<>>)

\* INITIALS (lines 487-496)
w_initials(t) ==
    <<t.init_fml, t.init_fml \o Dot \o t.l, t.f \o Dot \o t.init_fml>>
    \o Flatten([i \in 1..Len(t.dates) |->
           <<t.init_fml \o t.dates[i], t.init_fl \o t.dates[i]>>])
    \o (IF t.a # E THEN <<t.ai \o t.init_fml>> ELSE <<>>)

\* ALIAS + INITIALS (fl) + DATE (lines 501-511)
w_alias_initials(t) ==
    IF t.a = E THEN <<>>
    ELSE <<t.a \o t.init_fl, t.a \o Dot \o t.init_fl, t.init_fl \o Dot \o t.a>>
         \o Flatten([i \in 1..Len(t.dates) |->
                <<t.a \o t.init_fl \o t.dates[i], t.a \o Dot \o t.init_fl \o t.dates[i]>>])

\* ALIAS + LAST + DATE (lines 515-520)
w_alias_last_date(t) ==
    IF t.a = E THEN <<>>
    ELSE Flatten([i \in 1..Len(t.dates) |->
             <<t.a \o t.l \o t.dates[i], t.a \o Dot \o t.l \o t.dates[i]>>])

\* DATE + NAME (lines 523-533)
w_date_name(t) ==
    Flatten([i \in 1..Len(t.dates) |-> <<t.f \o t.dates[i], t.l \o t.dates[i]>>])
    \o (IF t.a = E THEN <<>>
        ELSE Flatten([i \in 1..Len(t.dates) |->
                 <<t.a \o t.f \o t.dates[i], t.a \o Dot \o t.f \o t.dates[i],
                   t.a \o t.init_fml \o t.dates[i]>>]))
    \o (IF t.md # E /\ t.m # E THEN <<t.ml \o t.md, t.ml \o t.dy2>> ELSE <<>>)

\* SEPARATOR VARIANTS (lines 536-556)
w_separator(t) ==
    <<t.f \o Dot \o t.l, t.l \o Dot \o t.f>>
    \o (IF t.m # E
        THEN <<t.f \o Dot \o t.mi \o Dot \o t.l, t.fi \o Dot \o t.mi \o Dot \o t.l>>
        ELSE <<>>)
    \o (IF t.a = E THEN <<>>
        ELSE <<t.a \o Dot \o t.f, t.f \o Dot \o t.a,
               t.a \o Dot \o t.l, t.l \o Dot \o t.a,
               t.a \o Dot \o t.init_fml, t.init_fml \o Dot \o t.a>>
             \o [i \in 1..Len(t.dates) |-> t.a \o Dot \o t.init_fml \o t.dates[i]]
             \o (IF t.m # E
                 THEN <<t.a \o t.f \o t.mi \o t.li, t.a \o t.fi \o t.li \o t.f>>
                 ELSE <<>>))

\* FIRST + ALIAS combos (lines 559-582)
w_first_alias(t) ==
    IF t.a = E THEN <<>>
    ELSE <<t.f \o t.a \o t.l, t.f \o Dot \o t.a \o Dot \o t.l,
           t.f \o t.a \o t.li, t.f \o Dot \o t.a \o t.li>>
         \o Flatten([i \in 1..Len(t.dates) |->
                <<t.f \o t.a \o t.dates[i], t.f \o Dot \o t.a \o t.dates[i],
                  t.f \o t.a \o t.li \o t.dates[i]>>])
         \o <<t.f \o t.ai, t.f \o Dot \o t.ai>>
         \o Flatten([i \in 1..Len(t.dates) |->
                <<t.f \o t.ai \o t.dates[i], t.f \o Dot \o t.ai \o t.dates[i]>>])

\* the six candidates of the alias2 loop body for one separator (lines 587-592)
w_alias2_sep(t, sep) ==
    <<t.a2 \o sep \o t.f, t.a2 \o sep \o t.l, t.f \o sep \o t.a2,
      IF t.a # E THEN t.a2 \o sep \o t.a ELSE E,
      IF t.a # E THEN t.a \o sep \o t.a2 ELSE E,
      t.a2 \o sep \o t.init_fml>>

\* ALIAS2 (lines 585-592)
w_alias2(t) ==
    IF t.a2 = E THEN <<>> ELSE w_alias2_sep(t, E) \o w_alias2_sep(t, Dot)

\* the candidates both modes build (lines 441-592)
w_default(t) ==
    w_plain(t) \o w_short(t) \o w_alias(t) \o w_alias_date(t) \o w_initials(t)
    \o w_alias_initials(t) \o w_alias_last_date(t) \o w_date_name(t)
    \o w_separator(t) \o w_first_alias(t) \o w_alias2(t)

\* FULL mode (lines 597-630)
w_full(t) ==
    LET cores == NonEmpty(<<t.f, t.l, t.a, t.a2, t.init_fml, t.init_fl, t.ml>>) IN
    Flatten([n \in 1..Len(cores) |->
        Flatten([i \in 1..Len(t.dates) |->
            <<cores[n] \o t.dates[i], cores[n] \o Dot \o t.dates[i]>>])])
    \o (IF t.a2 = E THEN <<>>
        ELSE w_alias2_sep(t, E) \o w_alias2_sep(t, Dot)
             \o Flatten([i \in 1..Len(t.dates) |->
                    <<t.a2 \o t.dates[i], t.a2 \o Dot \o t.dates[i]>>]))
    \o (IF t.m # E
        THEN <<t.f \o Dot \o t.mi \o t.li, t.fi \o t.mi \o Dot \o t.l>>
        ELSE <<>>)
    \o (IF t.a = E THEN <<>>
        ELSE <<t.ai \o Dot \o t.f \o t.l, t.a \o Dot \o t.f \o t.l,
               t.ai \o t.f \o Dot \o t.l>>
             \o Flatten([i \in 1..Len(t.dates) |->
                    <<t.f \o Dot \o t.a \o Dot \o t.dates[i],
                      t.f \o t.a \o t.init_fl \o t.dates[i]>>]))
    \o (IF t.a # E /\ t.m # E
        THEN <<IF t.md # E THEN t.a \o Dot \o t.init_fml \o t.md ELSE E>>
        ELSE <<>>)

\* full mode putting its block ahead of the default candidates
western_combos_full_first(t, full) ==
    IF full THEN w_full(t) \o w_default(t) ELSE w_default(t)

\* combos as handed to trim (line 632)
western_combos(t, full) == IF full THEN w_default(t) \o w_full(t) ELSE w_default(t)

generate_western(first, last, middle, alias, alias2, year, dob, full) ==
    trim(western_combos(western_tokens(first, last, middle, alias, alias2, year, dob), full),
         MAX_LEN_EN)

\* ------------------------------------------------------------------------
\* Inputs: each argument is drawn from the first N entries of its pool
\* ------------------------------------------------------------------------
CnLastPool ==
    <<<<"C","h","a","n">>,
    <<"c">>,
    <<" ","L","i"," ">>>>

CnFirstPool ==
    <<<<"T","a","i"," ","M","a","n">>,
    <<>>,
    <<"c"," ","c">>,
    <<"W","e","i","m","i","n","g">>,
    <<"M","E","I"," ","L","I","N","G"," ","W","O","N","G">>>>

CnAliasPool ==
    <<<<>>,
    <<"T","o","m","m","y">>,
    <<"J",".">>,
    <<"C","h","a","n">>>>

CnAlias2Pool ==
    <<<<>>,
    <<"c">>,
    <<"T","o","m"," ">>>>

WFirstPool ==
    <<<<"C","h","a","r","l","i","e">>,
    <<"A","l">>,
    <<" ","M","a","r","y"," ","A","n","n">>>>

WLastPool ==
    <<<<"B","r","o","w","n">>,
    <<"O">>,
    <<"D","E"," ","L","A"," ","C","R","U","Z">>>>

WMiddlePool ==
    <<<<>>,
    <<"M","o","n","r","o","e">>,
    <<"J">>>>

WAliasPool ==
    <<<<>>,
    <<"T","o","m","m","y">>,
    <<"C","h","u","c","k">>>>

WAlias2Pool ==
    <<<<>>,
    <<"C","B">>,
    <<"T","o","m"," ">>>>

YearPool ==
    <<<<>>,
    <<"2","0","1","0">>,
    <<"1","9","X","5">>,
    <<" ","1","9","9","9"," ">>>>

DobPool ==
    <<<<>>,
    <<"2","0","0","1","/","1","0","/","1","5">>,
    <<"1","9","9","0","/","0","3","/","2","2">>,
    <<"2","0","0","1","/","1","0">>,
    <<"1","2","3","4","5","/","6","/","7","8","9">>,
    <<"1","9","8","7","-","6","-","5">>>>

NCnLast == 2
NCnFirst == 4
NCnAlias == 3
NCnAlias2 == 2
NWFirst == 2
NWLast == 2
NWMiddle == 2
NWAlias == 2
NWAlias2 == 2
NYear == 3
NDob == 5

Prefix(pool, n) == {pool[i] : i \in 1..(IF n < Len(pool) THEN n ELSE Len(pool))}

Years == Prefix(YearPool, NYear)
Dobs  == Prefix(DobPool, NDob)

ChineseArgs ==
    [last : Prefix(CnLastPool, NCnLast), first : Prefix(CnFirstPool, NCnFirst),
     middle : {E}, alias : Prefix(CnAliasPool, NCnAlias),
     alias2 : Prefix(CnAlias2Pool, NCnAlias2),
     year : Years, dob : Dobs, full : BOOLEAN]

WesternArgs ==
    [last : Prefix(WLastPool, NWLast), first : Prefix(WFirstPool, NWFirst),
     middle : Prefix(WMiddlePool, NWMiddle), alias : Prefix(WAliasPool, NWAlias),
     alias2 : Prefix(WAlias2Pool, NWAlias2),
     year : Years, dob : Dobs, full : BOOLEAN]

\* ------------------------------------------------------------------------
\* State: one run of main() with the parsed arguments args and the chosen
\* style; pc tells whether the generator is still to be called or has
\* returned.  dt is the tuple parse_dates returned inside the generator,
\* combos the list handed to trim, out the list returned.
\* ------------------------------------------------------------------------
VARIABLES pc, style, args, dt, combos, out

vars == <<pc, style, args, dt, combos, out>>

NoDates == [yr4 |-> E, yr2 |-> E, dy2 |-> E, md |-> E]

Init ==
    /\ pc = "ready"
    /\ style \in {"chinese", "western"}
    /\ args \in (IF style = "chinese" THEN ChineseArgs ELSE WesternArgs)
    /\ dt = NoDates
    /\ combos = <<>>
    /\ out = <<>>

\* main(), style == "chinese" (lines 726-731): generate_chinese runs to its
\* return
GenerateChinese ==
    /\ pc = "ready"
    /\ style = "chinese"
    /\ pc' = "done"
    /\ dt' = parse_dates(args.year, args.dob)
    /\ combos' = chinese_combos(
                    chinese_tokens(args.last, args.first, args.alias, args.alias2,
                                   args.year, args.dob), args.full)
    /\ out' = trim(combos', MAX_LEN_CN)
    /\ UNCHANGED <<style, args>>

\* main(), style == "western" (lines 737-741): generate_western runs to its
\* return
GenerateWestern ==
    /\ pc = "ready"
    /\ style = "western"
    /\ pc' = "done"
    /\ dt' = parse_dates(args.year, args.dob)
    /\ combos' = western_combos(
                    western_tokens(args.first, args.last, args.middle, args.alias,
                                   args.alias2, args.year, args.dob), args.full)
    /\ out' = trim(combos', MAX_LEN_EN)
    /\ UNCHANGED <<style, args>>

Next == GenerateChinese \/ GenerateWestern

Spec == Init /\ [][Next]_vars

\* ------------------------------------------------------------------------
\* trim on its own: a call trim(candidates, maxlen) with the candidates drawn
\* from strings on both sides of the window, padded, blank and repeated
\* ------------------------------------------------------------------------
TrimPool ==
    <<<<"a","b","c","d","e","f">>,
    <<" ","a","b","c","d","e","f"," ">>,
    <<"a","b","c","d","e">>,
    <<"a","b","c","d","e","f","g","h","i","j","k","l","m","n","o","p","q">>,
    <<" "," ">>,
    <<"g","h","i","j","k","l">>,
    <<"a","b","c","d","e","f","g","h","i","j","k","l","m","n","o","p","q","r","s">>>>

NTrim == 6
MaxCandidates == 3

SeqsUpTo(S, n) == UNION {[1..k -> S] : k \in 0..n}

TrimArgs ==
    [candidates : SeqsUpTo(Prefix(TrimPool, NTrim), MaxCandidates),
     maxlen : {MAX_LEN_CN, MAX_LEN_EN}]

TrimInit ==
    /\ pc = "ready"
    /\ style = "trim"
    /\ args \in TrimArgs
    /\ dt = NoDates
    /\ combos = <<>>
    /\ out = <<>>

\* trim(candidates, maxlen) runs to its return (lines 33-41)
TrimCandidates ==
    /\ pc = "ready"
    /\ style = "trim"
    /\ pc' = "done"
    /\ combos' = args.candidates
    /\ out' = trim(combos', args.maxlen)
    /\ UNCHANGED <<style, args, dt>>

TrimNext == TrimCandidates

TrimSpec == TrimInit /\ [][TrimNext]_vars

\* ------------------------------------------------------------------------
\* Properties
\* ------------------------------------------------------------------------
Done == pc = "done"

MaxLenOf(st) == IF st = "chinese" THEN MAX_LEN_CN ELSE MAX_LEN_EN

\* the tokens of the call in the current state
CnTok == chinese_tokens(args.last, args.first, args.alias, args.alias2,
                        args.year, args.dob)
WTok  == western_tokens(args.first, args.last, args.middle, args.alias,
                        args.alias2, args.year, args.dob)

\* what the same call returns in the given mode
ResultIn(full) ==
    IF style = "chinese"
    THEN generate_chinese(args.last, args.first, args.alias, args.alias2,
                          args.year, args.dob, full)
    ELSE generate_western(args.first, args.last, args.middle, args.alias,
                          args.alias2, args.year, args.dob, full)

HasDigit(s) == \E i \in 1..Len(s) : s[i] \in Digits
AllDigits(s) == \A i \in 1..Len(s) : s[i] \in Digits
HasDot(s) == \E i \in 1..Len(s) : s[i] = "."
HasUpper(s) == \E i \in 1..Len(s) : \E k \in 1..26 : s[i] = UpperChars[k]

\* C1: every returned string is 6..16 (Chinese) or 6..18 (Western) long.
C1_LengthWindow ==
    Done => \A i \in 1..Len(out) :
                MIN_LEN <= Len(out[i]) /\ Len(out[i]) <= MaxLenOf(style)

\* a Chinese and a Western call both meet strings off both ends of the window
C1_Witness ==
    /\ Done /\ out # <<>>
    /\ \E i \in 1..Len(combos) : Len(combos[i]) > MaxLenOf(style)
    /\ \E i \in 1..Len(combos) : combos[i] # E /\ Len(combos[i]) < MIN_LEN
    /\ \E i \in 1..Len(out) : Len(out[i]) = MaxLenOf(style)

\* C2: the returned sequence holds no string twice.
C2_NoDuplicates == Done => Cardinality(SeqToSet(out)) = Len(out)

\* init_fml+d next to init_fl+d with no middle name: built twice, returned
C2_Witness ==
    /\ Done /\ style = "western" /\ args.middle = E
    /\ \E i \in 1..(Len(combos) - 1) :
          combos[i] = combos[i + 1] /\ InSeq(combos[i], out)

\* C3: every returned string is entirely lowercase.
C3_AllLowercase == Done => \A i \in 1..Len(out) : ~HasUpper(out[i])

\* dob is year/month/day with a month of 1..12
ValidMonths ==
    {<<"0","1">>, <<"0","2">>, <<"0","3">>, <<"0","4">>, <<"0","5">>, <<"0","6">>,
     <<"0","7">>, <<"0","8">>, <<"0","9">>, <<"1","0">>, <<"1","1">>, <<"1","2">>}
MonthOf(dob) == zfill(dob_parts(dob)[2], 2)
DayOf(dob) == LastN(zfill(dob_parts(dob)[3], 2), 2)
ValidMonthDob(dob) ==
    dob # E /\ Len(dob_parts(dob)) = 3 /\ MonthOf(dob) \in ValidMonths
\* the text the year tokens are cut from
YearText(year, dob) == IF strip(year) # E THEN strip(year) ELSE dob_parts(dob)[1]
NumericDates(year, dob) ==
    /\ AllDigits(strip(year))
    /\ \A k \in 1..Len(dob_parts(dob)) : AllDigits(dob_parts(dob)[k])

\* the name tokens a date suffix is appended to
NameTokens ==
    IF style = "chinese"
    THEN {CnTok.a, CnTok.a2, CnTok.g, CnTok.g2, CnTok.s, CnTok.gi, CnTok.init_sg}
    ELSE {WTok.a, WTok.a2, WTok.f, WTok.l, WTok.ml, WTok.init_fl, WTok.init_fml}
DigitFreeNames ==
    ~ \E x \in {args.last, args.first, args.middle, args.alias, args.alias2} : HasDigit(x)

NoMonthToken(mo) ==
    /\ mo \notin {dt.yr4, dt.yr2, dt.dy2, dt.md}
    /\ \A tok \in NameTokens : ~InSeq(tok \o mo, out)

\* C4 as stated: with a valid month, no date token equals the 2-digit month
\* and no candidate is a name token followed by the 2-digit month.
C4_NoMonthValue ==
    (Done /\ ValidMonthDob(args.dob)) => NoMonthToken(MonthOf(args.dob))

\* C4 amended: the same, for numeric dates and digit-free names, when the
\* 2-digit month differs from the last two digits of the year and from the
\* 2-digit day.
C4_MonthOnlyExcluded ==
    (/\ Done /\ ValidMonthDob(args.dob)
     /\ NumericDates(args.year, args.dob) /\ DigitFreeNames
     /\ MonthOf(args.dob) # LastN(YearText(args.year, args.dob), 2)
     /\ MonthOf(args.dob) # DayOf(args.dob))
    => NoMonthToken(MonthOf(args.dob))

\* alias + month-day is returned while alias + month is not
C4_Witness ==
    /\ Done /\ ValidMonthDob(args.dob)
    /\ NumericDates(args.year, args.dob) /\ DigitFreeNames
    /\ MonthOf(args.dob) # LastN(YearText(args.year, args.dob), 2)
    /\ MonthOf(args.dob) # DayOf(args.dob)
    /\ args.alias # E
    /\ InSeq(low(strip(args.alias)) \o dt.md, out)
    /\ InSeq(low(strip(args.alias)) \o dt.yr2, out)

\* C5: generate_chinese never returns surname + date token.
C5_NoBareSurnameDate ==
    (Done /\ style = "chinese" /\ CnTok.s # E)
    => \A d \in {dt.yr4, dt.yr2, dt.md, dt.dy2} \ {E} : ~InSeq(CnTok.s \o d, out)

Scenario1 ==
    /\ style = "chinese"
    /\ args = [last |-> <<"C","h","a","n">>, first |-> <<"T","a","i"," ","M","a","n">>, middle |-> E,
               alias |-> <<"T","o","m","m","y">>, alias2 |-> E, year |-> E,
               dob |-> <<"2","0","0","1","/","1","0","/","1","5">>, full |-> FALSE]

\* C6: scenario 1 returns the ten listed candidates and none of tommy10, ctm,
\* chan2001.
C6_Scenario1 ==
    (Done /\ Scenario1) =>
        /\ \A x \in {<<"t","o","m","m","y","2","0","0","1">>, <<"t","o","m","m","y","0","1">>, <<"t","o","m","m","y","1","0","1","5">>, <<"t","o","m","m","y","1","5">>, <<"t","o","m","m","y","1","5","0","1">>,
                     <<"t","o","m","m","y","c","t","m">>, <<"t","o","m","m","y",".","c","t","m">>, <<"m","a","n","c","h","a","n">>, <<"t","a","i","m","a","n","c">>, <<"c","t","m","2","0","0","1">>} :
              InSeq(x, out)
        /\ \A x \in {<<"t","o","m","m","y","1","0">>, <<"c","t","m">>, <<"c","h","a","n","2","0","0","1">>} : ~InSeq(x, out)

C6_Witness == Done /\ Scenario1 /\ InSeq(<<"c","t","m">>, combos) /\ InSeq(<<"c","t","m","2","0","0","1">>, out)

Scenario2 ==
    /\ style = "western"
    /\ args = [last |-> <<"B","r","o","w","n">>, first |-> <<"C","h","a","r","l","i","e">>, middle |-> <<"M","o","n","r","o","e">>,
               alias |-> E, alias2 |-> E, year |-> E,
               dob |-> <<"1","9","9","0","/","0","3","/","2","2">>, full |-> FALSE]

\* C7 as stated: scenario 2 returns charliebrown, browncharlie, charlie.brown,
\* cmb0322, cmb90 and charliem, and neither charlie03 nor cb.
C7_Scenario2AsStated ==
    (Done /\ Scenario2) =>
        /\ \A x \in {<<"c","h","a","r","l","i","e","b","r","o","w","n">>, <<"b","r","o","w","n","c","h","a","r","l","i","e">>, <<"c","h","a","r","l","i","e",".","b","r","o","w","n">>, <<"c","m","b","0","3","2","2">>,
                     <<"c","m","b","9","0">>, <<"c","h","a","r","l","i","e","m">>} : InSeq(x, out)
        /\ \A x \in {<<"c","h","a","r","l","i","e","0","3">>, <<"c","b">>} : ~InSeq(x, out)

\* C7 amended: scenario 2 returns charliebrown, browncharlie, charlie.brown,
\* cmb0322 and charliem, and none of cmb90 (5 characters), charlie03, cb.
C7_Scenario2 ==
    (Done /\ Scenario2) =>
        /\ \A x \in {<<"c","h","a","r","l","i","e","b","r","o","w","n">>, <<"b","r","o","w","n","c","h","a","r","l","i","e">>, <<"c","h","a","r","l","i","e",".","b","r","o","w","n">>, <<"c","m","b","0","3","2","2">>,
                     <<"c","h","a","r","l","i","e","m">>} : InSeq(x, out)
        /\ \A x \in {<<"c","m","b","9","0">>, <<"c","h","a","r","l","i","e","0","3">>, <<"c","b">>} : ~InSeq(x, out)

\* cmb90 is built and dropped by the length window
C7_Witness == Done /\ Scenario2 /\ InSeq(<<"c","m","b","9","0">>, combos) /\ InSeq(<<"c","m","b","1","9","9","0">>, out)

\* C8: every candidate returned with full=False is returned with full=True.
C8_FullOnlyAdds ==
    (Done /\ args.full) => SeqToSet(ResultIn(FALSE)) \subseteq SeqToSet(out)

\* full mode returns the default candidates and more
C8_Witness ==
    /\ Done /\ args.full
    /\ ResultIn(FALSE) # <<>>
    /\ Len(out) > Len(ResultIn(FALSE))

G2Present == Len(split_ws(low(strip(args.first)))) >= 2
NoDotInput ==
    ~ \E x \in {args.last, args.first, args.alias, args.alias2, args.year, args.dob} :
          HasDot(x)

Scenario3 ==
    /\ style = "western" /\ ~args.full
    /\ args.alias = E /\ args.alias2 = E /\ args.middle = E
    /\ args.year = E /\ args.dob = E

PlainShortDotted(t) ==
    {t.f \o t.l, t.l \o t.f,
     t.f \o t.li, t.fi \o t.l, t.f \o Dot \o t.li, t.fi \o Dot \o t.l,
     t.li \o Dot \o t.f,
     t.f \o Dot \o t.l, t.l \o Dot \o t.f}

InitialsForms(t) == {t.init_fl, t.init_fl \o Dot \o t.l, t.f \o Dot \o t.init_fl}

\* C10 as stated: with no alias, alias2, middle, year, dob, default mode
\* returns only plain, short and dotted first/last forms, nothing of the
\* combined-initials tier.
C10_NoInitialsTier ==
    (Done /\ Scenario3) => SeqToSet(out) \subseteq PlainShortDotted(WTok)

\* C10 amended: it returns only those forms and the three combined-initials
\* forms (initials, initials.last, first.initials), which need no alias.
C10_UnconditionalTiers ==
    (Done /\ Scenario3)
    => SeqToSet(out) \subseteq (PlainShortDotted(WTok) \cup InitialsForms(WTok))

\* initials.last is returned without an alias
C10_Witness ==
    /\ Done /\ Scenario3
    /\ InSeq(WTok.init_fl \o Dot \o WTok.l, out)
    /\ InSeq(WTok.f \o WTok.l, out)

\* an optional token the call was given no value for, made visible
Absent == <<"#">>
OrAbsent(x) == IF x = E THEN Absent ELSE x
HasAbsent(x) == \E i \in 1..Len(x) : x[i] = "#"
AllDateSlots(t) == <<OrAbsent(t.yr4), OrAbsent(t.yr2), OrAbsent(t.md), OrAbsent(t.dy2)>>

\* the tokens of the call with every absent optional token standing in as "#"
CnWithAbsent(t) ==
    [t EXCEPT !.a = OrAbsent(@), !.ai = OrAbsent(@),
              !.init_as = IF t.a = E THEN Absent \o t.si ELSE @,
              !.init_asg = IF t.a = E THEN Absent \o t.init_sg ELSE @,
              !.a2 = OrAbsent(@), !.g2 = OrAbsent(@),
              !.yr4 = OrAbsent(@), !.yr2 = OrAbsent(@),
              !.md = OrAbsent(@), !.dy2 = OrAbsent(@),
              !.dates = AllDateSlots(t)]
WWithAbsent(t) ==
    [t EXCEPT !.a = OrAbsent(@), !.ai = OrAbsent(@), !.a2 = OrAbsent(@),
              !.m = OrAbsent(@), !.mi = OrAbsent(@),
              !.ml = IF t.m = E THEN Absent \o t.l ELSE @,
              !.yr4 = OrAbsent(@), !.yr2 = OrAbsent(@),
              !.md = OrAbsent(@), !.dy2 = OrAbsent(@),
              !.dates = AllDateSlots(t)]

\* every pattern of the current mode, the gated ones included
AllPatterns ==
    IF style = "chinese" THEN SeqToSet(chinese_combos(CnWithAbsent(CnTok), args.full))
    ELSE SeqToSet(western_combos(WWithAbsent(WTok), args.full))
\* the candidates whose pattern uses no absent token
CompletePatterns == {strip(x) : x \in {y \in AllPatterns : ~HasAbsent(y)}}

DotEdge(x) ==
    \/ x[1] = "."
    \/ x[Len(x)] = "."
    \/ \E i \in 1..(Len(x) - 1) : x[i] = "." /\ x[i + 1] = "."

NoEmptyComponent ==
    /\ \A i \in 1..Len(out) : ~DotEdge(out[i])
    /\ SeqToSet(out) \subseteq CompletePatterns

NamesGiven ==
    /\ strip(args.last) # E /\ strip(args.first) # E
    /\ ~HasDot(args.last) /\ ~HasDot(args.first)
DotFreeOptionals ==
    ~ \E x \in {args.alias, args.alias2, args.middle, args.year, args.dob} : HasDot(x)

\* C11 as stated: with a non-empty, dot-free surname and given/first name, no
\* returned string starts or ends with ".", or contains "..", and none comes
\* from a pattern with an absent alias, alias2, middle, g2 or date token
\* taken as "".
C11_NoEmptyComponent == (Done /\ NamesGiven) => NoEmptyComponent

\* C11 amended: the same, when alias, alias2, middle, year and dob contain
\* no dot either.
C11_NoEmptyComponentDotFree ==
    (Done /\ NamesGiven /\ DotFreeOptionals) => NoEmptyComponent

\* a one-word given name with an alias and a year, no alias2 and no dob:
\* alias.given is returned, the g2, alias2 and month-day patterns are skipped
C11_Witness ==
    /\ Done /\ style = "chinese" /\ NamesGiven /\ DotFreeOptionals
    /\ CnTok.g2 = E /\ CnTok.a # E /\ CnTok.a2 = E
    /\ dt.yr4 # E /\ dt.md = E
    /\ InSeq(CnTok.a \o Dot \o CnTok.g, out)
    /\ \E x \in AllPatterns : HasAbsent(x) /\ Len(x) >= MIN_LEN

\* dob does not split into exactly three parts
Malformed(dob) == dob # E /\ Len(dob_parts(dob)) # 3

\* the candidates the same call builds when it is given no dob
CombosWithoutDob ==
    IF style = "chinese"
    THEN chinese_combos(chinese_tokens(args.last, args.first, args.alias, args.alias2,
                                       args.year, E), args.full)
    ELSE western_combos(western_tokens(args.first, args.last, args.middle, args.alias,
                                       args.alias2, args.year, E), args.full)

\* a name token both modes of the style suffix with every date token
\* (given + date, combined initials + date)
DatedToken == IF style = "chinese" THEN CnTok.g ELSE WTok.init_fl

\* C12: with a malformed dob parse_dates returns empty day2 and monthday and
\* takes yr4 and yr2 from the year alone; the generator builds what it builds
\* without a dob, the year-suffixed candidates included.
C12_MalformedDobSkipped ==
    (Done /\ Malformed(args.dob)) =>
        /\ dt.dy2 = E /\ dt.md = E
        /\ dt.yr4 = LastN(strip(args.year), 4)
        /\ dt.yr2 = LastN(strip(args.year), 2)
        /\ combos = CombosWithoutDob
        /\ strip(args.year) # E =>
              /\ InSeq(DatedToken \o dt.yr4, combos)
              /\ InSeq(DatedToken \o dt.yr2, combos)

\* dob "2001/10" with a year: given + year is returned
C12_Witness ==
    /\ Done /\ Malformed(args.dob) /\ strip(args.year) # E
    /\ style = "chinese"
    /\ InSeq(CnTok.g \o LastN(strip(args.year), 4), out)

\* the length the module docstring, the generate_western docstring and the
\* command-line help give for all output
DocumentedMaxLen == 16

\* C13: every returned string of either style is 6 to 16 characters long.
C13_DocumentedWindow ==
    Done => \A i \in 1..Len(out) :
                MIN_LEN <= Len(out[i]) /\ Len(out[i]) <= DocumentedMaxLen

\* the candidates as trim compares them
Stripped == [i \in 1..Len(combos) |-> strip(combos[i])]
InWindow(x, maxlen) == x # E /\ MIN_LEN <= Len(x) /\ Len(x) <= maxlen
\* the places of the input where a string of the window stands for the first time
FirstPlaces(maxlen) ==
    {i \in 1..Len(combos) :
        /\ InWindow(Stripped[i], maxlen)
        /\ \A j \in 1..(i - 1) : Stripped[j] # Stripped[i]}
FirstPlaceOf(x) ==
    CHOOSE i \in 1..Len(combos) :
        Stripped[i] = x /\ \A j \in 1..(i - 1) : Stripped[j] # x

\* C14: trim returns the stripped strings of the window, each at its first
\* occurrence and in the order of these first occurrences.
C14_StableFirstOccurrence ==
    (Done /\ style = "trim") =>
        LET K == FirstPlaces(args.maxlen) IN
        /\ Len(out) = Cardinality(K)
        /\ \A i \in K : out[Cardinality({j \in K : j <= i})] = Stripped[i]
        /\ \A p, q \in 1..Len(out) :
              p < q => FirstPlaceOf(out[p]) < FirstPlaceOf(out[q])

\* two strings are returned, one of them met twice (once padded), and a
\* candidate outside the window is dropped
C14_Witness ==
    /\ Done /\ style = "trim" /\ Len(out) = 2
    /\ \E i, j \in 1..Len(combos) :
          i < j /\ combos[i] # combos[j] /\ Stripped[i] = Stripped[j]
          /\ InSeq(Stripped[i], out)
    /\ Len(combos) > Len(out)

\* the blocks of generate_chinese in the order of the source: tiers 1..10,
\* the alias2 block, the full-mode block
Blocks(t, full) ==
    <<cn_tier1(t), cn_tier2(t), cn_tier3(t), cn_tier4(t), cn_tier5(t), cn_tier6(t),
      cn_tier7(t), cn_tier8(t), cn_tier9(t), cn_tier10(t), cn_alias2(t),
      IF full THEN cn_full(t) ELSE <<>>>>

PlaceIn(x, seq) == CHOOSE p \in 1..Len(seq) : seq[p] = x
BuiltOnce(x) == Cardinality({i \in 1..Len(combos) : combos[i] = x}) = 1

\* alias+date, alias+given, alias+init_sg, alias+surname, g2+surname,
\* given+surname-initial, given+date, surname+given-initials, surname+given
TierExamples(t) ==
    <<t.a \o t.dates[1], t.a \o t.g, t.a \o t.init_sg, t.a \o t.s, t.g2 \o t.s,
      t.g \o t.si, t.g \o t.dates[1], t.s \o t.gi, t.s \o t.g>>

\* C15: generate_chinese returns its candidates in block order: a candidate
\* whose first block is earlier stands earlier; the nine example patterns,
\* each built once and returned, stand in the order of their tiers; an alias2
\* candidate no tier builds stands after surname+given and given+surname.
C15_TierOrder ==
    (Done /\ style = "chinese") =>
        LET t  == CnTok
            B  == Blocks(t, args.full)
            ex == TierExamples(t)
        IN  \* S[k]: the strings block k builds; rank[p]: the first block that
            \* builds out[p]
            \A S \in {[k \in 1..Len(B) |-> {strip(x) : x \in SeqToSet(B[k])}]} :
            \A rank \in {[p \in 1..Len(out) |->
                            CHOOSE k \in 1..Len(B) :
                                out[p] \in S[k] /\ \A j \in 1..(k - 1) : out[p] \notin S[j]]} :
            /\ \A p \in 1..(Len(out) - 1) : rank[p] <= rank[p + 1]
            /\ (/\ t.a # E /\ t.g2 # E /\ t.dates # <<>>
                /\ \A k \in 1..Len(ex) : BuiltOnce(ex[k]) /\ InSeq(ex[k], out))
               => \A k \in 1..(Len(ex) - 1) : PlaceIn(ex[k], out) < PlaceIn(ex[k + 1], out)
            /\ \A p \in 1..Len(out) :
                  rank[p] = 11 =>    \* first built by the alias2 block
                      \A y \in {t.s \o t.g, t.g \o t.s} :
                          InSeq(y, out) => PlaceIn(y, out) < p

\* all nine example patterns and an alias2 candidate are returned, and one
\* candidate is built by two blocks
C15_Witness ==
    /\ Done /\ style = "chinese"
    /\ CnTok.a # E /\ CnTok.g2 # E /\ CnTok.a2 # E /\ CnTok.dates # <<>>
    /\ \A k \in 1..9 : BuiltOnce(TierExamples(CnTok)[k]) /\ InSeq(TierExamples(CnTok)[k], out)
    /\ InSeq(CnTok.a2 \o CnTok.g, out)
    /\ args.full
    /\ \E x \in SeqToSet(cn_alias2(CnTok)) : InSeq(x, out) /\ InSeq(x, cn_full(CnTok))

\* C16: whenever non-empty, monthday is 4 characters long and day2 is 2, yr4
\* is at most 4 and yr2 at most 2.
C16_FixedWidths ==
    Done =>
        /\ dt.md # E => Len(dt.md) = 4
        /\ dt.dy2 # E => Len(dt.dy2) = 2
        /\ Len(dt.yr4) <= 4
        /\ Len(dt.yr2) <= 2

\* C17: what a call returns with full=False is a prefix of what it returns
\* with full=True.
C17_DefaultIsPrefix ==
    (Done /\ args.full) =>
        \A d \in {ResultIn(FALSE)} :
            /\ Len(d) <= Len(out)
            /\ SubSeq(out, 1, Len(d)) = d

\* a Western full-mode call returns more than the default one, and its full
\* block builds again a candidate the default blocks built
C17_Witness ==
    /\ Done /\ args.full /\ style = "western"
    /\ ResultIn(FALSE) # <<>>
    /\ Len(out) > Len(ResultIn(FALSE))
    /\ \E x \in SeqToSet(w_full(WTok)) : InSeq(x, w_default(WTok)) /\ InSeq(x, out)

====
